---- MODULE Spec2Model ----
(***************************************************************************)
(* Model of the Card Assistant add-on (miniminkus/anki-llm-chat).          *)
(*                                                                         *)
(* Part 1 models api_client.StreamWorker: the worker thread that opens a   *)
(* streaming chat completion and relays it as Qt signals.  One worker is   *)
(* constructed with a provider configuration, run() is split at its        *)
(* blocking points (urlopen, each line read), the HTTP server and the      *)
(* network are the environment, and cancel() may be called from another    *)
(* thread between any two steps.                                           *)
(***************************************************************************)
EXTENDS Integers, Sequences, FiniteSets, TLC

(***************************************************************************)
(* Bounds                                                                  *)
(***************************************************************************)
\* most lines one response delivers before it closes
MaxLines == 3

(***************************************************************************)
(* JSON values, as json.loads returns them                                 *)
(***************************************************************************)
JNull == [t |-> "null"]
JNum(n) == [t |-> "num", n |-> n]
JStr(s) == [t |-> "str", s |-> s]
JList(items) == [t |-> "list", items |-> items]
JObj(kv) == [t |-> "obj", kv |-> kv]

\* the deltas of the spec's example stream
TxtHi == "Hi"
TxtThere == " there"

Delta(content) == JObj(<< <<"choices", JList(<< JObj(<< <<"delta", JObj(<< <<"content", content>> >>)>> >>) >>)>> >>)

\* the payloads a line can carry after the "data: " marker:
\* the sentinel, text that is no JSON, and JSON documents of several shapes
Bodies ==
  << [kind |-> "done"],
     [kind |-> "text"],
     [kind |-> "json", j |-> Delta(JStr(TxtHi))],
     [kind |-> "json", j |-> Delta(JStr(TxtThere))],
     [kind |-> "json", j |-> Delta(JStr(""))],
     [kind |-> "json", j |-> Delta(JNull)],
     [kind |-> "json", j |-> JObj(<<>>)],
     [kind |-> "json", j |-> JObj(<< <<"choices", JList(<<>>)>> >>)],
     [kind |-> "json", j |-> JObj(<< <<"choices", JList(<< JObj(<<>>) >>)>> >>)],
     [kind |-> "json", j |-> JObj(<< <<"choices", JList(<< JNull >>)>> >>)],
     [kind |-> "json", j |-> JList(<<>>)],
     [kind |-> "json", j |-> JObj(<< <<"choices", JList(<< JObj(<< <<"delta", JNull>> >>) >>)>> >>)],
     [kind |-> "json", j |-> Delta(JNum(5))] >>

BodyIds == 1..Len(Bodies)

(***************************************************************************)
(* Python evaluation of chunk["choices"][0].get("delta", {}).get(...)      *)
(* A result is <<"ok", value>> or <<"exc", exception class>>.              *)
(***************************************************************************)
HasKey(o, k) == \E i \in 1..Len(o.kv) : o.kv[i][1] = k
Lookup(o, k) == o.kv[CHOOSE i \in 1..Len(o.kv) : o.kv[i][1] = k][2]

\* v[key] with a string key
GetItemStr(v, k) ==
  IF v.t = "obj"
    THEN IF HasKey(v, k) THEN <<"ok", Lookup(v, k)>> ELSE <<"exc", "KeyError">>
    ELSE <<"exc", "TypeError">>

\* v[0]
GetItem0(v) ==
  CASE v.t = "list" -> IF Len(v.items) > 0 THEN <<"ok", v.items[1]>> ELSE <<"exc", "IndexError">>
    [] v.t = "str" -> IF Len(v.s) > 0 THEN <<"ok", JStr(SubSeq(v.s, 1, 1))>> ELSE <<"exc", "IndexError">>
    [] v.t = "obj" -> <<"exc", "KeyError">>
    [] OTHER -> <<"exc", "TypeError">>

\* v.get(key, default)
DictGet(v, k, default) ==
  IF v.t = "obj"
    THEN <<"ok", IF HasKey(v, k) THEN Lookup(v, k) ELSE default>>
    ELSE <<"exc", "AttributeError">>

\* bool(v)
Truthy(v) ==
  CASE v.t = "null" -> FALSE
    [] v.t = "num" -> v.n # 0
    [] v.t = "str" -> Len(v.s) > 0
    [] v.t = "list" -> Len(v.items) > 0
    [] v.t = "obj" -> Len(v.kv) > 0

ExtractContent(chunk) ==
  LET r1 == GetItemStr(chunk, "choices") IN
  IF r1[1] = "exc" THEN r1 ELSE
  LET r2 == GetItem0(r1[2]) IN
  IF r2[1] = "exc" THEN r2 ELSE
  LET r3 == DictGet(r2[2], "delta", JObj(<<>>)) IN
  IF r3[1] = "exc" THEN r3 ELSE
  DictGet(r3[2], "content", JStr(""))

\* the exceptions the inner try of the read loop catches
CaughtInLoop == {"JSONDecodeError", "KeyError", "IndexError"}

\* json.loads(data)
JsonLoads(b) ==
  IF Bodies[b].kind = "json" THEN <<"ok", Bodies[b].j>> ELSE <<"exc", "JSONDecodeError">>

\* The try block of the loop body on the payload of a data line:
\* <<"chunk", text>>, <<"skip">> or <<"raise", exception class>>
ProcessPayload(b) ==
  LET parsed == JsonLoads(b)
      r == IF parsed[1] = "exc" THEN parsed ELSE ExtractContent(parsed[2])
  IN IF r[1] = "exc"
       THEN IF r[2] \in CaughtInLoop THEN <<"skip">> ELSE <<"raise", r[2]>>
       ELSE IF ~Truthy(r[2]) THEN <<"skip">>
            ELSE IF r[2].t = "str" THEN <<"chunk", r[2].s>>
                 ELSE <<"raise", "TypeError">>

\* the sentinel payload, and the first delta of the example stream
DoneBody == CHOOSE b \in BodyIds : Bodies[b].kind = "done"
HiBody == CHOOSE b \in BodyIds : ProcessPayload(b) = <<"chunk", TxtHi>>

\* a received line: decodable as UTF-8 or not, the text before the payload,
\* and the payload
Marker == "data: "
Lines ==
  {[utf8 |-> TRUE, marker |-> Marker, body |-> b] : b \in BodyIds}
    \cup {[utf8 |-> TRUE, marker |-> "data:", body |-> b] : b \in {DoneBody, HiBody}}
    \cup {[utf8 |-> FALSE, marker |-> Marker, body |-> HiBody]}

(***************************************************************************)
(* Exceptions and the messages run() reports for them                      *)
(***************************************************************************)
\* An exception: its class, the class of its .reason ("" when it has no such
\* attribute), and for an HTTPError the status code and the response body.
Exc(cls, reason) == [cls |-> cls, reason |-> reason, code |-> 0, body |-> 0]

\* s repeated n times
RECURSIVE Repeat(_, _)
Repeat(s, n) == IF n = 0 THEN "" ELSE s \o Repeat(s, n - 1)

\* a body of 250 characters that is no JSON, with blanks around it
LongText == Repeat("0123456789", 25)
LongRaw == "  " \o LongText \o " \n"

\* HTTP error bodies: unreadable, or raw text with what json.loads makes of it
ErrBodies ==
  << [readable |-> FALSE, raw |-> "", json |-> <<"exc", "JSONDecodeError">>],
     [readable |-> TRUE, raw |-> "{\"error\":{\"message\":\"bad key\"}}",
      json |-> <<"ok", JObj(<< <<"error", JObj(<< <<"message", JStr("bad key")>> >>)>> >>)>>],
     [readable |-> TRUE, raw |-> " oops ", json |-> <<"exc", "JSONDecodeError">>],
     [readable |-> TRUE, raw |-> "  ", json |-> <<"exc", "JSONDecodeError">>],
     [readable |-> TRUE, raw |-> "[1]", json |-> <<"ok", JList(<< JNum(1) >>)>>],
     [readable |-> TRUE, raw |-> "null", json |-> <<"ok", JNull>>],
     [readable |-> TRUE, raw |-> "{\"error\":\"quota\"}",
      json |-> <<"ok", JObj(<< <<"error", JStr("quota")>> >>)>>],
     [readable |-> TRUE, raw |-> "{\"error\":null}",
      json |-> <<"ok", JObj(<< <<"error", JNull>> >>)>>],
     [readable |-> TRUE, raw |-> "{\"error\":\"quota\",\"message\":\"slow down\"}",
      json |-> <<"ok", JObj(<< <<"error", JStr("quota")>>, <<"message", JStr("slow down")>> >>)>>],
     [readable |-> TRUE, raw |-> "{\"message\":\"not found\"}",
      json |-> <<"ok", JObj(<< <<"message", JStr("not found")>> >>)>>],
     [readable |-> TRUE, raw |-> "{\"error\":{\"message\":\"\"}}\n",
      json |-> <<"ok", JObj(<< <<"error", JObj(<< <<"message", JStr("")>> >>)>> >>)>>],
     [readable |-> TRUE, raw |-> "{\"error\":{\"code\":7}}",
      json |-> <<"ok", JObj(<< <<"error", JObj(<< <<"code", JNum(7)>> >>)>> >>)>>],
     [readable |-> TRUE, raw |-> LongRaw, json |-> <<"exc", "JSONDecodeError">>] >>

HttpStatuses == {401, 500}
HTTPError(code, b) == [cls |-> "HTTPError", reason |-> "Unauthorized", code |-> code, body |-> b]

\* class hierarchy: urllib.error.HTTPError is a urllib.error.URLError
IsInstance(e, cls) == e.cls = cls \/ (cls = "URLError" /\ e.cls = "HTTPError")

\* str(e) of an exception of the given class
ExcText(cls) ==
  CASE cls = "gaierror" -> "[Errno -2] Name or service not known"
    [] cls = "timeout" -> "timed out"
    [] cls = "ConnectionRefusedError" -> "[Errno 111] Connection refused"
    [] cls = "ConnectionResetError" -> "[Errno 104] Connection reset by peer"
    [] cls = "UnicodeDecodeError" -> "'utf-8' codec can't decode byte 0xff in position 0: invalid start byte"
    [] cls = "TypeError" -> "unsupported operand type"
    [] cls = "AttributeError" -> "object has no attribute 'get'"
    [] OTHER -> cls

Whitespace == {" ", "\t", "\n", "\r"}

RECURSIVE LStrip(_)
LStrip(s) ==
  IF Len(s) > 0 /\ SubSeq(s, 1, 1) \in Whitespace THEN LStrip(SubSeq(s, 2, Len(s))) ELSE s

RECURSIVE RStrip(_)
RStrip(s) ==
  IF Len(s) > 0 /\ SubSeq(s, Len(s), Len(s)) \in Whitespace
    THEN RStrip(SubSeq(s, 1, Len(s) - 1)) ELSE s

\* str.strip()
Strip(s) == LStrip(RStrip(s))

PreviewChars == 200

\* f"{value}" of a JSON value that is truthy
Format(v) == IF v.t = "str" THEN v.s ELSE IF v.t = "num" THEN ToString(v.n) ELSE v.t

\* d.get("message") is truthy, for a dict d
HasMessage(d) == HasKey(d, "message") /\ Truthy(Lookup(d, "message"))

\* the clauses with the preview of the raw body tried before its message
read_api_error_PreviewFirst(e) ==
  LET body == ErrBodies[e.body]
      code == ToString(e.code)
      stripped == Strip(body.raw)
      preview == IF Len(stripped) > PreviewChars THEN SubSeq(stripped, 1, PreviewChars) ELSE stripped
  IN IF ~body.readable THEN "HTTP " \o code
     ELSE IF preview # "" THEN "HTTP " \o code \o ": " \o preview
     ELSE "HTTP " \o code

\* _read_api_error
read_api_error(e) ==
  LET body == ErrBodies[e.body]
      code == ToString(e.code)
      stripped == Strip(body.raw)
      preview == IF Len(stripped) > PreviewChars THEN SubSeq(stripped, 1, PreviewChars) ELSE stripped
      fallback == IF preview # "" THEN "HTTP " \o code \o ": " \o preview ELSE "HTTP " \o code
  IN IF ~body.readable THEN "HTTP " \o code
     ELSE IF body.json[1] = "exc" THEN fallback
     ELSE LET data == body.json[2]
              err == DictGet(data, "error", JObj(<<>>))
          IN IF err[1] = "exc" THEN fallback
             ELSE IF err[2].t = "obj" /\ HasMessage(err[2])
               THEN Format(Lookup(err[2], "message")) \o " (" \o code \o ")"
             ELSE IF HasMessage(data)
               THEN Format(Lookup(data, "message")) \o " (" \o code \o ")"
             ELSE fallback

MsgNoInternet == "No internet connection."
MsgTimedOut == "Request timed out."
MsgConnectionError(reason) == "Connection error: " \o ExcText(reason)
\* the gear character U+2699 of the source is written out
MsgNoKey == "API key not set. Open settings (U+2699) to configure."

\* the clauses with the class of the exception itself tested, not of its
\* .reason
ExceptMessageIgnoresReason(e) ==
  IF IsInstance(e, "HTTPError") THEN read_api_error(e)
  ELSE IF IsInstance(e, "URLError") \/ IsInstance(e, "timeout")
    THEN IF e.cls = "gaierror" THEN MsgNoInternet
         ELSE IF e.cls = "timeout" THEN MsgTimedOut
         ELSE MsgConnectionError(IF e.reason # "" THEN e.reason ELSE e.cls)
  ELSE ExcText(e.cls)

\* the clauses with the URLError clause first, which then also takes every
\* HTTPError
ExceptMessageUrlErrorFirst(e) ==
  IF IsInstance(e, "URLError") \/ IsInstance(e, "timeout")
    THEN LET reason == IF e.reason # "" THEN e.reason ELSE e.cls
         IN IF reason = "gaierror" THEN MsgNoInternet
            ELSE IF reason = "timeout" THEN MsgTimedOut
            ELSE MsgConnectionError(reason)
  ELSE IF IsInstance(e, "HTTPError") THEN read_api_error(e)
  ELSE ExcText(e.cls)

\* The except clauses of run(), in their order: the message of the
\* error_occurred signal for an exception raised inside the try block
ExceptMessage(e) ==
  IF IsInstance(e, "HTTPError") THEN read_api_error(e)
  ELSE IF IsInstance(e, "URLError") \/ IsInstance(e, "timeout")
    THEN LET reason == IF e.reason # "" THEN e.reason ELSE e.cls
         IN IF reason = "gaierror" THEN MsgNoInternet
            ELSE IF reason = "timeout" THEN MsgTimedOut
            ELSE MsgConnectionError(reason)
  ELSE ExcText(e.cls)

\* what urlopen can raise, and what reading a line of the response can raise
OpenErrors ==
  {HTTPError(c, b) : c \in HttpStatuses, b \in 1..Len(ErrBodies)}
    \cup {Exc("URLError", r) : r \in {"gaierror", "timeout", "ConnectionRefusedError"}}
    \cup {Exc("timeout", ""), Exc("ConnectionResetError", "")}
ReadErrors == {Exc("timeout", ""), Exc("ConnectionResetError", "")}

(***************************************************************************)
(* The worker: configuration, request, and the run() state machine         *)
(***************************************************************************)
Providers == {"openrouter", "ollama", "gemini"}
ApiKeys == {"", "sk-key"}
\* the configured Ollama address: the default with a trailing slash, and a
\* host name typed without a scheme
OllamaUrls == {"http://localhost:11434/", "localhost"}

OPENROUTER_API_URL == "https://openrouter.ai/api/v1/chat/completions"

\* str.rstrip("/")
RECURSIVE RStripSlash(_)
RStripSlash(s) ==
  IF Len(s) > 0 /\ SubSeq(s, Len(s), Len(s)) = "/"
    THEN RStripSlash(SubSeq(s, 1, Len(s) - 1)) ELSE s

\* urllib.request.Request accepts a URL only when it starts with a scheme:
\* one or more characters other than "/" and ":" followed by ":"
RECURSIVE SchemeFrom(_, _)
SchemeFrom(s, i) ==
  IF i > Len(s) THEN FALSE
  ELSE LET c == SubSeq(s, i, i)
       IN IF c = "/" THEN FALSE
          ELSE IF c = ":" THEN i > 1
          ELSE SchemeFrom(s, i + 1)
HasScheme(s) == SchemeFrom(s, 1)

VARIABLES
  provider,       \* self.provider
  api_key,        \* self.api_key
  ollama_url,     \* self.ollama_url
  cancelled,      \* self._cancelled
  pc,             \* where run() stands
  full_response,  \* the local full_response of run()
  events,         \* the signals emitted so far, in order
  request,        \* the Request run() built
  opened,         \* urlopen has been called
  received,       \* the lines the response has delivered so far
  caught          \* the exception the try block of run() caught

\* the state of the chat panel (Part 2)
VARIABLES
  messages,       \* self._messages, the conversation history
  card_context,   \* self._card_context
  worker,         \* self._worker
  streaming,      \* self._streaming
  input,          \* the text of the input field
  slot_error,     \* the exception that ended the last slot, "" when none
  system_prompt,  \* the "system_prompt" entry of the add-on's configuration
  request_messages  \* the message list _on_send built for the StreamWorker

\* one call of a probe function, test_connection or fetch_models (Part 3)
VARIABLES
  probe           \* the arguments, the locals and the outcome of the call

\* one call of card_context.extract_context (Part 4)
VARIABLES
  extraction      \* the card, the side, and what the call came to

\* the settings dialog and the probes it started (Part 5)
VARIABLES
  dialog_open,    \* the dialog is shown; done() has not run
  bg,             \* self._bg: <<i>> for worker i of workers, <<>> for None
  workers,        \* every _BgWorker the dialog created, in order
  refresh_enabled,  \* refresh_btn.isEnabled()
  test_enabled    \* test_btn.isEnabled()

wvars == <<provider, api_key, ollama_url, cancelled, pc, full_response, events,
           request, opened, received, caught>>
pvars == <<messages, card_context, worker, streaming, input, slot_error,
           system_prompt, request_messages>>
tvars == <<probe>>
cvars == <<extraction>>
dvars == <<dialog_open, bg, workers, refresh_enabled, test_enabled>>
vars == <<wvars, pvars, tvars, cvars, dvars>>

\* what the actions of one part leave alone
NotWorker == <<pvars, tvars, cvars, dvars>>
NotPanel == <<wvars, tvars, cvars, dvars>>
NotProbe == <<wvars, pvars, cvars, dvars>>
NotContext == <<wvars, pvars, tvars, dvars>>
NotDialog == <<wvars, pvars, tvars, cvars>>

None == "None"

\* ChatPanel.__init__
PanelInit ==
  /\ messages = <<>>
  /\ card_context = ""
  /\ worker = None
  /\ streaming = FALSE
  /\ input = ""
  /\ slot_error = ""
  /\ system_prompt = ""
  /\ request_messages = <<>>

Chunk(text) == [type |-> "Chunk", text |-> text]
Completed(text) == [type |-> "Completed", text |-> text]
Failed(msg) == [type |-> "Failed", text |-> msg]

NoExc == Exc("", "")
NoRequest == [url |-> "", auth |-> FALSE, bearer |-> ""]

\* no probe function has been called
NoProbe ==
  [fn |-> "", api_key |-> "", provider |-> "", ollama_url |-> "", model |-> "",
   stage |-> "idle", request |-> NoRequest, opened |-> FALSE, resp |-> 0,
   parsed |-> FALSE, exc |-> NoExc, ok |-> FALSE, message |-> "", models |-> <<>>]
ProbeInit == probe = NoProbe

\* extract_context has not been called
NoExtraction ==
  [stage |-> "idle",
   card |-> [card |-> FALSE, note |-> "", model |-> "", flds |-> "", names |-> <<>>,
             fields |-> <<>>],
   answer_shown |-> FALSE, exc |-> "", text |-> "", clean |-> <<>>]
ContextInit == extraction = NoExtraction

\* ConfigDialog.__init__
DialogInit ==
  /\ dialog_open = TRUE
  /\ bg = <<>>
  /\ workers = <<>>
  /\ refresh_enabled = TRUE
  /\ test_enabled = TRUE

\* StreamWorker.__init__
Init ==
  /\ provider \in Providers
  /\ api_key \in ApiKeys
  /\ \E u \in OllamaUrls : ollama_url = RStripSlash(u)
  /\ cancelled = FALSE
  /\ pc = "start"
  /\ full_response = ""
  /\ events = <<>>
  /\ request = NoRequest
  /\ opened = FALSE
  /\ received = <<>>
  /\ caught = NoExc
  /\ PanelInit
  /\ ProbeInit
  /\ ContextInit
  /\ DialogInit

\* StreamWorker.cancel, called from the thread that owns the worker
Cancel ==
  /\ ~cancelled
  /\ cancelled' = TRUE
  /\ UNCHANGED <<provider, api_key, ollama_url, pc, full_response, events,
                 request, opened, received, caught>>
  /\ UNCHANGED NotWorker

\* the credential a provider must have before run() goes to the network
MissingCredential == provider = "openrouter" /\ api_key = ""

\* run(), the credential check
CheckCredential ==
  /\ pc = "start"
  /\ IF MissingCredential
       THEN /\ events' = Append(events, Failed(MsgNoKey))
            /\ pc' = "done"
       ELSE /\ events' = events
            /\ pc' = "build"
  /\ UNCHANGED <<provider, api_key, ollama_url, cancelled, full_response,
                 request, opened, received, caught>>
  /\ UNCHANGED NotWorker

\* the URL and the headers of the request
RequestFor ==
  IF provider = "ollama"
    THEN [url |-> ollama_url \o "/v1/chat/completions", auth |-> FALSE, bearer |-> ""]
    ELSE [url |-> OPENROUTER_API_URL, auth |-> TRUE, bearer |-> "Bearer " \o api_key]

\* run(), building the payload and the Request, outside the try block:
\* Request raises ValueError for a URL without a scheme
BuildRequest ==
  /\ pc = "build"
  /\ IF HasScheme(RequestFor.url)
       THEN /\ request' = RequestFor
            /\ pc' = "open"
       ELSE /\ request' = request
            /\ pc' = "raised"
  /\ UNCHANGED <<provider, api_key, ollama_url, cancelled, full_response,
                 events, opened, received, caught>>
  /\ UNCHANGED NotWorker

\* a buffer that keeps only the latest delta
AccumulateOverwrite(full, content) == content

\* full_response += content
Accumulate(full, content) == full \o content

\* an exception raised inside the try block: one error_occurred, then return
Fail(e) ==
  /\ events' = Append(events, Failed(ExceptMessage(e)))
  /\ caught' = e
  /\ pc' = "done"

\* the end of the loop, by break or by the response closing: stream_finished
Finish ==
  /\ events' = Append(events, Completed(full_response))
  /\ caught' = caught
  /\ pc' = "done"

\* run(), urlopen: the connection opens or urlopen raises
OpenConnection ==
  /\ pc = "open"
  /\ opened' = TRUE
  /\ \/ /\ pc' = "read"
        /\ UNCHANGED <<events, caught>>
     \/ \E e \in OpenErrors : Fail(e)
  /\ UNCHANGED <<provider, api_key, ollama_url, cancelled, full_response,
                 request, received>>
  /\ UNCHANGED NotWorker

\* run(), one iteration of the read loop on a line the response delivers
ReadLine ==
  /\ pc = "read"
  /\ Len(received) < MaxLines
  /\ \E line \in Lines :
       /\ received' = Append(received, line)
       /\ IF cancelled THEN Finish /\ full_response' = full_response
          ELSE IF ~line.utf8
            THEN Fail(Exc("UnicodeDecodeError", "")) /\ full_response' = full_response
          ELSE IF line.marker # Marker
            THEN UNCHANGED <<events, pc, full_response, caught>>
          ELSE IF line.body = DoneBody THEN Finish /\ full_response' = full_response
          ELSE LET r == ProcessPayload(line.body)
               IN CASE r[1] = "chunk" ->
                         /\ full_response' = Accumulate(full_response, r[2])
                         /\ events' = Append(events, Chunk(r[2]))
                         /\ UNCHANGED <<pc, caught>>
                    [] r[1] = "skip" -> UNCHANGED <<events, pc, full_response, caught>>
                    [] r[1] = "raise" ->
                         Fail(Exc(r[2], "")) /\ full_response' = full_response
  /\ UNCHANGED <<provider, api_key, ollama_url, cancelled, request, opened>>
  /\ UNCHANGED NotWorker

\* run(), the response closes: the for loop ends
ReadEnd ==
  /\ pc = "read"
  /\ Finish
  /\ UNCHANGED <<provider, api_key, ollama_url, cancelled, full_response,
                 request, opened, received>>
  /\ UNCHANGED NotWorker

\* run(), reading the next line raises
ReadError ==
  /\ pc = "read"
  /\ \E e \in ReadErrors : Fail(e)
  /\ UNCHANGED <<provider, api_key, ollama_url, cancelled, full_response,
                 request, opened, received>>
  /\ UNCHANGED NotWorker

Next ==
  \/ Cancel
  \/ CheckCredential
  \/ BuildRequest
  \/ OpenConnection
  \/ ReadLine
  \/ ReadEnd
  \/ ReadError

Spec == Init /\ [][Next]_vars

(***************************************************************************)
(* Part 2: chat_panel.ChatPanel, the slots that run on the GUI thread      *)
(***************************************************************************)
\* what the user can type, and the contexts the reviewer hooks pass in
InputTexts == {"", "  ", "why?", " more "}
Contexts == {"", "[Card] Front: x", "[Card] Front: x\nBack: y"}
\* the system prompts the settings dialog can save
Prompts == {"", "Be brief."}

\* the parameters of StreamWorker.__init__, and the keywords _on_send
\* passes to it
StreamWorkerParams ==
  {"api_key", "model", "messages", "max_tokens", "temperature", "provider", "ollama_url"}
SendKeywords ==
  {"api_key", "model", "messages", "max_tokens", "temperature", "provider", "ollama_url",
   "gemini_api_key"}

\* a call with keyword arguments binds only when the function has a
\* parameter of each name; otherwise it raises TypeError
CallBinds(keywords, params) == keywords \subseteq params

\* the panel's fields, for the methods that run one after another in a slot
Panel ==
  [messages |-> messages, card_context |-> card_context, worker |-> worker,
   streaming |-> streaming, input |-> input, slot_error |-> ""]

SetPanel(p) ==
  /\ messages' = p.messages
  /\ card_context' = p.card_context
  /\ worker' = p.worker
  /\ streaming' = p.streaming
  /\ input' = p.input
  /\ slot_error' = p.slot_error

\* ChatPanel._set_streaming
set_streaming(p, active) == [p EXCEPT !.streaming = active]

\* ChatPanel._cleanup_worker: drop the reference, disconnect the signals
\* and wait for the thread
cleanup_worker(p) == IF p.worker = None THEN p ELSE [p EXCEPT !.worker = None]

\* ChatPanel._cancel_stream
cancel_stream(p) ==
  IF p.worker # None /\ p.streaming
    THEN set_streaming(cleanup_worker(p), FALSE)
    ELSE p

\* the user edits the input field, which _set_streaming disables while the
\* panel is streaming
TypeText ==
  /\ ~streaming
  /\ \E t \in InputTexts : SetPanel([Panel EXCEPT !.input = t])
  /\ UNCHANGED <<system_prompt, request_messages>>
  /\ UNCHANGED NotPanel

\* ChatPanel.on_new_card
on_new_card ==
  /\ \E context \in Contexts :
       LET p1 == [Panel EXCEPT !.card_context = context]
           p2 == cancel_stream(p1)
       IN SetPanel([p2 EXCEPT !.messages = <<>>])
  /\ UNCHANGED <<system_prompt, request_messages>>
  /\ UNCHANGED NotPanel

\* on_answer_shown with the steps of on_new_card: the stream is cancelled
\* and the history cleared
on_answer_shown_Resets ==
  /\ \E context \in Contexts :
       SetPanel([cancel_stream([Panel EXCEPT !.card_context = context]) EXCEPT !.messages = <<>>])
  /\ UNCHANGED <<system_prompt, request_messages>>
  /\ UNCHANGED NotPanel

\* ChatPanel.on_answer_shown
on_answer_shown ==
  /\ \E context \in Contexts : SetPanel([Panel EXCEPT !.card_context = context])
  /\ UNCHANGED <<system_prompt, request_messages>>
  /\ UNCHANGED NotPanel

\* a message of the given role
Message(role, content) == [role |-> role, content |-> content]

\* the list with the card context always in it, empty or not
BuildMessagesContextAlways(prompt, context, history) ==
  (IF prompt # "" THEN <<Message("system", prompt)>> ELSE <<>>)
    \o <<Message("system", "Current card:\n" \o context)>>
    \o history

\* _on_send, the message list: system prompt, card context, conversation
BuildMessages(prompt, context, history) ==
  (IF prompt # "" THEN <<Message("system", prompt)>> ELSE <<>>)
    \o (IF context # "" THEN <<Message("system", "Current card:\n" \o context)>> ELSE <<>>)
    \o history

\* ChatPanel._on_send: the send button or the return key
on_send ==
  /\ IF streaming THEN SetPanel(cancel_stream(Panel)) /\ UNCHANGED request_messages
     ELSE IF Strip(input) = "" THEN SetPanel(Panel) /\ UNCHANGED request_messages
     ELSE LET p1 == cleanup_worker(Panel)
              p2 == [p1 EXCEPT !.input = "",
                               !.messages = Append(@, Message("user", Strip(input)))]
              p3 == set_streaming(p2, TRUE)
          IN /\ request_messages' = BuildMessages(system_prompt, p2.card_context, p2.messages)
             /\ IF CallBinds(SendKeywords, StreamWorkerParams)
                  THEN SetPanel([p3 EXCEPT !.worker = "StreamWorker"])
                  ELSE SetPanel([p3 EXCEPT !.slot_error = "TypeError"])
  /\ UNCHANGED system_prompt
  /\ UNCHANGED NotPanel

\* ChatPanel.cleanup
cleanup ==
  /\ LET p1 == cancel_stream(Panel)
     IN SetPanel([p1 EXCEPT !.messages = <<>>, !.card_context = ""])
  /\ UNCHANGED <<system_prompt, request_messages>>
  /\ UNCHANGED NotPanel

\* ConfigDialog._save writes the configuration the panel reads on a send
save ==
  /\ \E prompt \in Prompts : system_prompt' = prompt
  /\ UNCHANGED <<messages, card_context, worker, streaming, input, slot_error,
                 request_messages>>
  /\ UNCHANGED NotPanel

NextPanel ==
  \/ save
  \/ TypeText
  \/ on_new_card
  \/ on_answer_shown
  \/ on_send
  \/ cleanup

SpecPanel == Init /\ [][NextPanel]_vars

\* the panel with the send button pressed again and again: the button is
\* the stop button while the panel is streaming
SpecPanelFair == SpecPanel /\ WF_vars(on_send)

\* the panel never comes to hold a stream worker
PanelHoldsNoWorker == worker = None

\* no reply is ever added to the history, and once the panel is streaming
\* it stays so
NoAssistantMessage == \A i \in 1..Len(messages) : messages[i].role # "assistant"
StreamingStays == [][streaming => streaming']_vars

(***************************************************************************)
(* Part 3: the probe functions of api_client, test_connection and          *)
(* fetch_models.  A call runs to urlopen, the server and the network       *)
(* answer, and the call runs to its end.                                   *)
(***************************************************************************)
OPENROUTER_MODELS_URL == "https://openrouter.ai/api/v1/models"

\* the model id the caller passes: none, or one
ModelIds == {"", "llama3"}

\* the bodies of the responses a probe can receive: bytes that are no
\* UTF-8, or text with what json.loads makes of it
Responses ==
  << [utf8 |-> FALSE, json |-> <<"exc", "JSONDecodeError">>],
     [utf8 |-> TRUE, json |-> <<"exc", "JSONDecodeError">>],
     [utf8 |-> TRUE, json |-> <<"ok", JObj(<<>>)>>],
     [utf8 |-> TRUE, json |-> <<"ok", JList(<<>>)>>],
     [utf8 |-> TRUE, json |-> <<"ok",
        JObj(<< <<"models", JList(<< JObj(<< <<"name", JStr("b")>> >>),
                                     JObj(<< <<"name", JStr("a:7")>> >>),
                                     JObj(<< <<"name", JStr("B")>> >>),
                                     JObj(<< <<"name", JStr("a")>> >>) >>)>>,
                <<"data", JList(<< JObj(<< <<"id", JStr("z/b")>> >>),
                                   JObj(<< <<"id", JStr("a/y")>> >>),
                                   JObj(<< <<"id", JStr("z/a")>> >>) >>)>> >>)>>],
     [utf8 |-> TRUE, json |-> <<"ok",
        JObj(<< <<"models", JList(<< JObj(<< <<"id", JStr("a")>> >>) >>)>>,
                <<"data", JList(<< JObj(<< <<"name", JStr("a")>> >>) >>)>> >>)>>],
     [utf8 |-> TRUE, json |-> <<"ok",
        JObj(<< <<"models", JNull>>, <<"data", JNull>> >>)>>],
     [utf8 |-> TRUE, json |-> <<"ok",
        JObj(<< <<"models", JList(<< JStr("a") >>)>>, <<"data", JStr("ab")>> >>)>>],
     [utf8 |-> TRUE, json |-> <<"ok",
        JObj(<< <<"models", JList(<< JObj(<< <<"name", JStr("b")>> >>),
                                     JObj(<< <<"name", JNum(5)>> >>) >>)>>,
                <<"data", JList(<< JObj(<< <<"id", JNum(5)>> >>),
                                   JObj(<< <<"id", JNum(3)>> >>) >>)>> >>)>>] >>

\* what urlopen and the reading of the response come to: an exception, or
\* one of the responses
Outcomes ==
  {[exc |-> e, resp |-> 0] : e \in OpenErrors}
    \cup {[exc |-> NoExc, resp |-> r] : r \in 1..Len(Responses)}

\* the characters of the model identifiers, by increasing code point
CodePointOrder == "/7:Babyz"
CodePoint(c) == CHOOSE i \in 1..Len(CodePointOrder) : SubSeq(CodePointOrder, i, i) = c

\* a < b for two str
RECURSIVE StrLess(_, _)
StrLess(a, b) ==
  IF b = "" THEN FALSE
  ELSE IF a = "" THEN TRUE
  ELSE LET ca == CodePoint(SubSeq(a, 1, 1))
           cb == CodePoint(SubSeq(b, 1, 1))
       IN IF ca # cb THEN ca < cb
          ELSE StrLess(SubSeq(a, 2, Len(a)), SubSeq(b, 2, Len(b)))

\* a < b for two values of one type, str or number
ValueLess(a, b) == IF a.t = "str" THEN StrLess(a.s, b.s) ELSE a.n < b.n

\* v put into the sorted sequence s, after the values that are not greater
RECURSIVE Insert(_, _)
Insert(v, s) ==
  IF s = <<>> THEN <<v>>
  ELSE IF ValueLess(v, Head(s)) THEN <<v>> \o s
  ELSE <<Head(s)>> \o Insert(v, Tail(s))

RECURSIVE InsertionSort(_)
InsertionSort(s) ==
  IF s = <<>> THEN <<>> ELSE Insert(s[Len(s)], InsertionSort(SubSeq(s, 1, Len(s) - 1)))

\* sorted(values): str compare with str and numbers with numbers; null and
\* dict values, and a str with a number, do not compare
PySorted(values) ==
  IF Len(values) <= 1 THEN <<"ok", values>>
  ELSE IF \/ \A i \in 1..Len(values) : values[i].t = "str"
          \/ \A i \in 1..Len(values) : values[i].t = "num"
    THEN <<"ok", InsertionSort(values)>>
  ELSE <<"exc", "TypeError">>

\* the items a for loop over v visits
PyIter(v) ==
  IF v.t = "list" THEN <<"ok", v.items>>
  ELSE IF v.t = "str" THEN <<"ok", [i \in 1..Len(v.s) |-> JStr(SubSeq(v.s, i, i))] >>
  ELSE IF v.t = "obj" THEN <<"ok", [i \in 1..Len(v.kv) |-> JStr(v.kv[i][1])] >>
  ELSE <<"exc", "TypeError">>

\* len(v)
PyLen(v) ==
  CASE v.t = "list" -> <<"ok", Len(v.items)>>
    [] v.t = "str" -> <<"ok", Len(v.s)>>
    [] v.t = "obj" -> <<"ok", Len(v.kv)>>
    [] OTHER -> <<"exc", "TypeError">>

\* [m[key] for m in items]: the values, or the first exception
RECURSIVE Pluck(_, _)
Pluck(items, key) ==
  IF items = <<>> THEN <<"ok", <<>> >>
  ELSE LET first == GetItemStr(Head(items), key)
       IN IF first[1] = "exc" THEN first
          ELSE LET rest == Pluck(Tail(items), key)
               IN IF rest[1] = "exc" THEN rest ELSE <<"ok", <<first[2]>> \o rest[2]>>

\* the key of the list in the response, and of the identifier in an entry
ListKey(p) == IF p = "ollama" THEN "models" ELSE "data"
IdKey(p) == IF p = "ollama" THEN "name" ELSE "id"

\* sorted(m[IdKey] for m in data.get(ListKey, []))
SortedIds(data, p) ==
  LET listed == DictGet(data, ListKey(p), JList(<<>>)) IN
  IF listed[1] = "exc" THEN listed ELSE
  LET items == PyIter(listed[2]) IN
  IF items[1] = "exc" THEN items ELSE
  LET ids == Pluck(items[2], IdKey(p)) IN
  IF ids[1] = "exc" THEN ids ELSE PySorted(ids[2])

\* len(data.get(ListKey, []))
CountIds(data, p) ==
  LET listed == DictGet(data, ListKey(p), JList(<<>>)) IN
  IF listed[1] = "exc" THEN listed ELSE PyLen(listed[2])

\* the call with its arguments bound, before its first statement
ProbeCall(fn, k, p, u, m) ==
  [NoProbe EXCEPT !.fn = fn, !.api_key = k, !.provider = p, !.ollama_url = u, !.model = m]

\* ollama_url = ollama_url.rstrip("/")
StripUrl(c) == [c EXCEPT !.ollama_url = RStripSlash(@)]

\* "if not api_key" in the branches for the providers that are not ollama;
\* the variant is the test run() makes, for openrouter alone
ProbeKeyMissingOpenrouterOnly(p, k) == p = "openrouter" /\ k = ""
ProbeKeyMissing(p, k) == p # "ollama" /\ k = ""

\* the URL and the headers of the request of test_connection
TestRequest(c) ==
  IF c.provider = "ollama"
    THEN [url |-> c.ollama_url \o (IF c.model # "" THEN "/v1/chat/completions" ELSE "/api/tags"),
          auth |-> FALSE, bearer |-> ""]
    ELSE [url |-> IF c.model # "" THEN OPENROUTER_API_URL ELSE OPENROUTER_MODELS_URL,
          auth |-> TRUE, bearer |-> "Bearer " \o c.api_key]

\* the URL and the headers of the request of fetch_models
FetchRequest(c) ==
  IF c.provider = "ollama"
    THEN [url |-> c.ollama_url \o "/api/tags", auth |-> FALSE, bearer |-> ""]
    ELSE [url |-> OPENROUTER_MODELS_URL, auth |-> TRUE, bearer |-> "Bearer " \o c.api_key]

\* return ok, message
Return(c, ok, message) == [c EXCEPT !.stage = "returned", !.ok = ok, !.message = message]

\* return models
ReturnModels(c, ids) == [c EXCEPT !.stage = "returned", !.models = ids]

\* the exception leaves the function
Raise(c, e) == [c EXCEPT !.stage = "raised", !.exc = e]

\* the message of the except clauses of test_connection, in their order
TestConnectionMessage(e) ==
  IF IsInstance(e, "HTTPError") THEN read_api_error(e)
  ELSE IF IsInstance(e, "URLError")
    THEN "Connection failed: " \o ExcText(IF e.reason # "" THEN e.reason ELSE e.cls)
  ELSE IF IsInstance(e, "timeout") THEN "Connection timed out"
  ELSE ExcText(e.cls)

\* the exceptions the except clauses of test_connection catch: the last
\* clause is "except Exception"; the variant has the first three only
TestConnectionCatchesNetworkOnly(e) == IsInstance(e, "URLError") \/ IsInstance(e, "timeout")
TestConnectionCatches(e) == TRUE

\* an exception raised inside the try block of test_connection
TestConnectionExcept(c, e) ==
  IF TestConnectionCatches(e)
    THEN Return([c EXCEPT !.exc = e], FALSE, TestConnectionMessage(e))
    ELSE Raise(c, e)

\* the dash U+2014 of the source is written out
MsgWorking(model) == "Connected (U+2014) " \o model \o " is working"
MsgAvailable(count) == "Connected (U+2014) " \o ToString(count) \o " model(s) available"

\* test_connection up to urlopen
TestConnectionStart(c0) ==
  LET c == StripUrl(c0) IN
  IF ProbeKeyMissing(c.provider, c.api_key) THEN Return(c, FALSE, "API key is empty")
  ELSE IF ~HasScheme(TestRequest(c).url) THEN TestConnectionExcept(c, Exc("ValueError", ""))
  ELSE [c EXCEPT !.request = TestRequest(c), !.opened = TRUE, !.stage = "open"]

\* test_connection from urlopen on
TestConnectionFinish(c, out) ==
  IF out.exc # NoExc THEN TestConnectionExcept(c, out.exc)
  ELSE LET r == Responses[out.resp]
           got == [c EXCEPT !.resp = out.resp]
       IN IF ~r.utf8 THEN TestConnectionExcept(got, Exc("UnicodeDecodeError", ""))
          ELSE IF r.json[1] = "exc" THEN TestConnectionExcept(got, Exc(r.json[2], ""))
          ELSE IF c.model # "" THEN Return([got EXCEPT !.parsed = TRUE], TRUE, MsgWorking(c.model))
          ELSE LET count == CountIds(r.json[2], c.provider)
               IN IF count[1] = "exc"
                    THEN TestConnectionExcept([got EXCEPT !.parsed = TRUE], Exc(count[2], ""))
                    ELSE Return([got EXCEPT !.parsed = TRUE], TRUE, MsgAvailable(count[2]))

\* fetch_models up to urlopen: the Request is made before the try block
FetchModelsStart(c0) ==
  LET c == StripUrl(c0) IN
  IF ProbeKeyMissing(c.provider, c.api_key) THEN ReturnModels(c, <<>>)
  ELSE IF ~HasScheme(FetchRequest(c).url) THEN Raise(c, Exc("ValueError", ""))
  ELSE [c EXCEPT !.request = FetchRequest(c), !.opened = TRUE, !.stage = "open"]

\* fetch_models from urlopen on: "except Exception: return []"
FetchModelsFinish(c, out) ==
  IF out.exc # NoExc THEN ReturnModels([c EXCEPT !.exc = out.exc], <<>>)
  ELSE LET r == Responses[out.resp]
           got == [c EXCEPT !.resp = out.resp]
       IN IF ~r.utf8 THEN ReturnModels([got EXCEPT !.exc = Exc("UnicodeDecodeError", "")], <<>>)
          ELSE IF r.json[1] = "exc" THEN ReturnModels([got EXCEPT !.exc = Exc(r.json[2], "")], <<>>)
          ELSE LET ids == SortedIds(r.json[2], c.provider)
               IN IF ids[1] = "exc"
                    THEN ReturnModels([got EXCEPT !.parsed = TRUE, !.exc = Exc(ids[2], "")], <<>>)
                    ELSE ReturnModels([got EXCEPT !.parsed = TRUE], ids[2])

\* a call of test_connection, to its early return or to urlopen
CallTestConnection ==
  /\ probe.stage # "open"
  /\ \E k \in ApiKeys, p \in Providers, u \in OllamaUrls, m \in ModelIds :
       probe' = TestConnectionStart(ProbeCall("test_connection", k, p, u, m))
  /\ UNCHANGED NotProbe

\* a call of fetch_models, to its early return or to urlopen
CallFetchModels ==
  /\ probe.stage # "open"
  /\ \E k \in ApiKeys, p \in Providers, u \in OllamaUrls :
       probe' = FetchModelsStart(ProbeCall("fetch_models", k, p, u, ""))
  /\ UNCHANGED NotProbe

\* urlopen raises or answers, and the call runs to its end
ProbeResponds ==
  /\ probe.stage = "open"
  /\ \E out \in Outcomes :
       probe' = IF probe.fn = "test_connection"
                  THEN TestConnectionFinish(probe, out)
                  ELSE FetchModelsFinish(probe, out)
  /\ UNCHANGED NotProbe

NextProbe ==
  \/ CallTestConnection
  \/ CallFetchModels
  \/ ProbeResponds

SpecProbe == Init /\ [][NextProbe]_vars

(***************************************************************************)
(* Part 4: card_context, the text of a card for the LLM.  The regular      *)
(* expressions of the module are matched on the characters of the text.    *)
(***************************************************************************)
MAX_FIELD_CHARS == 2000
MAX_TOTAL_CHARS == 6000

\* the character of s at position i
Ch(s, i) == SubSeq(s, i, i)

Min(S) == CHOOSE x \in S : \A y \in S : x <= y

\* the literal stands in s at position i
At(s, i, lit) == i + Len(lit) - 1 <= Len(s) /\ SubSeq(s, i, i + Len(lit) - 1) = lit

UpperCase == "ABCDEFGHIJKLMNOPQRSTUVWXYZ"
LowerCase == "abcdefghijklmnopqrstuvwxyz"
ToLowerCh(c) ==
  IF \E k \in 1..Len(UpperCase) : Ch(UpperCase, k) = c
    THEN Ch(LowerCase, CHOOSE k \in 1..Len(UpperCase) : Ch(UpperCase, k) = c)
    ELSE c

RECURSIVE ToLower(_)
ToLower(s) == IF s = "" THEN "" ELSE ToLowerCh(Ch(s, 1)) \o ToLower(SubSeq(s, 2, Len(s)))

\* the literal, in lower case, stands in s at position i in any case
\* (re.IGNORECASE)
AtNoCase(s, i, lit) ==
  i + Len(lit) - 1 <= Len(s) /\ ToLower(SubSeq(s, i, i + Len(lit) - 1)) = lit

\* the least position from i on with a character of chars, with a character
\* not in chars, with the literal; 0 when there is none
FirstOf(s, i, chars) ==
  LET S == {j \in i..Len(s) : Ch(s, j) \in chars} IN IF S = {} THEN 0 ELSE Min(S)
FirstNotOf(s, i, chars) ==
  LET S == {j \in i..Len(s) : Ch(s, j) \notin chars} IN IF S = {} THEN 0 ELSE Min(S)
FirstLit(s, i, lit) ==
  LET S == {j \in i..Len(s) : At(s, j, lit)} IN IF S = {} THEN 0 ELSE Min(S)
FirstLitNoCase(s, i, lit) ==
  LET S == {j \in i..Len(s) : AtNoCase(s, j, lit)} IN IF S = {} THEN 0 ELSE Min(S)

Digits == {"0", "1", "2", "3", "4", "5", "6", "7", "8", "9"}
\* \s
SpaceChars == {" ", "\t", "\n", "\r", "\f"}
MediaTags == {"audio", "video", "source", "object", "embed"}

\* the character entities html.unescape decodes, those of the field values
\* below
Entities ==
  << <<"&amp;", "&">>, <<"&lt;", "<">>, <<"&gt;", ">">>, <<"&quot;", "\"">>, <<"&#39;", "'">> >>

\* _CLOZE_RE at position i, \{\{c\d+::(.*?)(?:::[^}]*)?\}\}: the positions
\* <<first of group 1, last of group 1, last of the match>>, <<0, 0, 0>> for
\* no match.  Group 1 is the shortest text without a newline after which
\* the rest matches: "}}", or "::", characters other than "}", and "}}".
ClozeRest(s, k) ==
  IF At(s, k, "}}") THEN k + 1
  ELSE IF At(s, k, "::")
    THEN LET q == FirstOf(s, k + 2, {"}"}) IN IF q # 0 /\ At(s, q, "}}") THEN q + 1 ELSE 0
  ELSE 0
ClozeMatch(s, i) ==
  IF ~At(s, i, "{{c") THEN <<0, 0, 0>>
  ELSE LET d == FirstNotOf(s, i + 3, Digits)
       IN IF d = 0 \/ d = i + 3 \/ ~At(s, d, "::") THEN <<0, 0, 0>>
          ELSE LET p == d + 2
                   nl == FirstOf(s, p, {"\n"})
                   last == IF nl = 0 THEN Len(s) ELSE nl
                   K == {k \in p..last : ClozeRest(s, k) # 0}
               IN IF K = {} THEN <<0, 0, 0>>
                  ELSE <<p, Min(K) - 1, ClozeRest(s, Min(K))>>

\* the last position of the match of a pattern that starts at position i,
\* 0 when none starts there
MatchEnd(re, s, i) ==
  CASE re = "CLOZE" -> ClozeMatch(s, i)[3]
    [] re = "SOUND" ->
         IF At(s, i, "[sound:")
           THEN LET j == FirstOf(s, i + 7, {"]"}) IN IF j > i + 7 THEN j ELSE 0
           ELSE 0
    [] re = "IMG" -> IF AtNoCase(s, i, "<img") THEN FirstOf(s, i + 4, {">"}) ELSE 0
    [] re = "MEDIA_TAG" ->
         IF \E tag \in MediaTags : AtNoCase(s, i, "<" \o tag)
           THEN FirstOf(s, i + 1, {">"}) ELSE 0
    [] re = "LATEX" ->
         IF AtNoCase(s, i, "[latex]")
           THEN LET j == FirstLitNoCase(s, i + 7, "[/latex]") IN IF j = 0 THEN 0 ELSE j + 7
           ELSE 0
    [] re = "MATHJAX" ->
         IF At(s, i, "\\(")
           THEN LET j == FirstLit(s, i + 2, "\\)") IN IF j = 0 THEN 0 ELSE j + 1
         ELSE IF At(s, i, "\\[")
           THEN LET j == FirstLit(s, i + 2, "\\]") IN IF j = 0 THEN 0 ELSE j + 1
         ELSE 0
    [] re = "HTML_BR" ->
         IF AtNoCase(s, i, "<br")
           THEN LET k == FirstNotOf(s, i + 3, SpaceChars)
                IN IF k = 0 THEN 0
                   ELSE IF At(s, k, "/>") THEN k + 1
                   ELSE IF At(s, k, ">") THEN k
                   ELSE 0
           ELSE 0
    [] re = "HTML_DIV" ->
         IF AtNoCase(s, i, "<div") \/ AtNoCase(s, i, "</div")
           THEN FirstOf(s, i + 1, {">"}) ELSE 0
    [] re = "HTML_TAG" ->
         IF At(s, i, "<")
           THEN LET j == FirstOf(s, i + 1, {">"}) IN IF j > i + 1 THEN j ELSE 0
           ELSE 0
    [] re = "ENTITY" ->
         IF \E n \in 1..Len(Entities) : At(s, i, Entities[n][1])
           THEN i + Len(Entities[CHOOSE n \in 1..Len(Entities) : At(s, i, Entities[n][1])][1]) - 1
           ELSE 0
    [] re = "WHITESPACE" ->
         IF Ch(s, i) \in {" ", "\t"}
           THEN LET k == FirstNotOf(s, i, {" ", "\t"}) IN IF k = 0 THEN Len(s) ELSE k - 1
           ELSE 0
    [] re = "BLANK_LINES" ->
         IF At(s, i, "\n\n\n")
           THEN LET k == FirstNotOf(s, i, {"\n"}) IN IF k = 0 THEN Len(s) ELSE k - 1
           ELSE 0

\* sub() that puts the whole match back in the place of a cloze deletion
ReplacementWholeMatch(re, s, i) ==
  CASE re = "CLOZE" -> SubSeq(s, i, ClozeMatch(s, i)[3])
    [] re \in {"SOUND", "IMG", "MEDIA_TAG", "HTML_TAG"} -> ""
    [] re \in {"LATEX", "MATHJAX"} -> "[formula]"
    [] re \in {"HTML_BR", "HTML_DIV"} -> "\n"
    [] re = "ENTITY" -> Entities[CHOOSE n \in 1..Len(Entities) : At(s, i, Entities[n][1])][2]
    [] re = "WHITESPACE" -> " "
    [] re = "BLANK_LINES" -> "\n\n"

\* what sub() puts in the place of the match at i
Replacement(re, s, i) ==
  CASE re = "CLOZE" -> SubSeq(s, ClozeMatch(s, i)[1], ClozeMatch(s, i)[2])
    [] re \in {"SOUND", "IMG", "MEDIA_TAG", "HTML_TAG"} -> ""
    [] re \in {"LATEX", "MATHJAX"} -> "[formula]"
    [] re \in {"HTML_BR", "HTML_DIV"} -> "\n"
    [] re = "ENTITY" -> Entities[CHOOSE n \in 1..Len(Entities) : At(s, i, Entities[n][1])][2]
    [] re = "WHITESPACE" -> " "
    [] re = "BLANK_LINES" -> "\n\n"

\* pattern.sub(replacement, s), on s from position i on: the matches are
\* taken from left to right and do not overlap
\* the characters a match of the pattern can start with
FirstChars(re) ==
  CASE re = "CLOZE" -> {"{"}
    [] re \in {"SOUND", "LATEX"} -> {"["}
    [] re \in {"IMG", "MEDIA_TAG", "HTML_BR", "HTML_DIV", "HTML_TAG"} -> {"<"}
    [] re = "MATHJAX" -> {"\\"}
    [] re = "ENTITY" -> {"&"}
    [] re = "WHITESPACE" -> {" ", "\t"}
    [] re = "BLANK_LINES" -> {"\n"}

RECURSIVE SubFrom(_, _, _)
SubFrom(re, s, i) ==
  LET S == {j \in i..Len(s) : Ch(s, j) \in FirstChars(re) /\ MatchEnd(re, s, j) # 0}
  IN IF S = {} THEN SubSeq(s, i, Len(s))
     ELSE LET j == Min(S)
          IN SubSeq(s, i, j - 1) \o Replacement(re, s, j) \o SubFrom(re, s, MatchEnd(re, s, j) + 1)
Sub(re, s) == SubFrom(re, s, 1)

\* the substitutions of clean_field, in their order
CleanSteps ==
  <<"CLOZE", "SOUND", "IMG", "MEDIA_TAG", "LATEX", "MATHJAX", "HTML_BR", "HTML_DIV",
    "HTML_TAG", "ENTITY", "WHITESPACE", "BLANK_LINES">>

RECURSIVE Substitute(_, _)
Substitute(steps, s) == IF steps = <<>> THEN s ELSE Substitute(Tail(steps), Sub(Head(steps), s))

\* a cut that keeps one character more
TruncateOffByOne(text, n, tail) ==
  IF Len(text) > n THEN SubSeq(text, 1, n + 1) \o tail ELSE text

\* text[:n] + tail when the text is longer than n
Truncate(text, n, tail) == IF Len(text) > n THEN SubSeq(text, 1, n) \o tail ELSE text

\* clean_field
clean_field(raw) ==
  IF raw = "" THEN ""
  ELSE Truncate(Strip(Substitute(CleanSteps, raw)), MAX_FIELD_CHARS, "...")

\* most values in note.fields
MaxFields == 3

\* the raw values of a field: empty, blank, media alone, markup alone, and
\* text with a cloze deletion, markup and an entity
RawFields ==
  {"", "  ", "<img src=\"a.png\">", "[sound:a.mp3]", "<div><br></div>", "Paris",
   "{{c1::Paris::city}} is in <b>France</b> &amp; \\(x\\)"}

\* plain text of n characters, cut from the digits written over and over
RECURSIVE Doubled(_, _)
Doubled(s, k) == IF k = 0 THEN s ELSE Doubled(s \o s, k - 1)
Letters(n) == SubSeq(Doubled("0123456789", 8), 1, n)

\* plain values about the field cap: one character more than the cap, and
\* as many characters as the cap followed by a space
OverCap == Letters(MAX_FIELD_CHARS + 1)
AtCapPadded == Letters(MAX_FIELD_CHARS) \o " "
LongFields == {"", "Paris", OverCap, AtCapPadded}

\* values that are one cloze deletion and nothing else; its text is plain,
\* padded, with a run of spaces, with a tag, with an entity, with a hint,
\* on two lines
ClozeTexts ==
  {"Paris", " Paris ", "a  b", "<b>x</b>", "a &amp; b", "Paris::city", "a\nb"}
Cloze(x) == "{{c1::" \o x \o "}}"
ClozeFields == {Cloze(x) : x \in ClozeTexts}

\* an entry of model["flds"], with its "name" key or without it
Fld(name) == [named |-> TRUE, name |-> name]
Unnamed == [named |-> FALSE, name |-> ""]

\* what the reviewer hands to extract_context: no card; a card whose note()
\* or whose note's model() raises or gives None; a note type without
\* "flds", with "flds" that is None, with an entry without "name"; and
\* note types with two named fields, the note with up to MaxFields values;
\* a note type with three fields and long values; a note that is one cloze
Card(note, model, flds, names, fields) ==
  [card |-> TRUE, note |-> note, model |-> model, flds |-> flds, names |-> names,
   fields |-> fields]
NoCard == [Card("", "", "", <<>>, <<>>) EXCEPT !.card = FALSE]
FrontBack == <<Fld("Front"), Fld("Back")>>
FrontBackExtra == <<Fld("Front"), Fld("Back"), Fld("Extra")>>
Cards ==
  {NoCard,
   Card("raises", "", "", <<>>, <<>>),
   Card("None", "", "", <<>>, <<>>),
   Card("note", "raises", "", <<>>, <<"Paris">>),
   Card("note", "None", "", <<>>, <<"Paris">>),
   Card("note", "dict", "absent", <<>>, <<"Paris">>),
   Card("note", "dict", "None", <<>>, <<"Paris">>),
   Card("note", "dict", "list", <<Fld("Front"), Unnamed>>, <<"Paris", "Paris">>)}
    \cup {Card("note", "dict", "list", FrontBack, fields) :
            fields \in UNION {[1..n -> RawFields] : n \in 0..MaxFields}}
    \cup {Card("note", "dict", "list", FrontBackExtra, fields) :
            fields \in UNION {[1..n -> LongFields] : n \in 1..MaxFields}}
    \cup {Card("note", "dict", "list", <<Fld("Text")>>, <<raw>>) : raw \in ClozeFields}

\* clean_field on the raw values, worked out once
AllRaw == RawFields \cup LongFields \cup ClozeFields
Cleaned == [raw \in AllRaw |-> clean_field(raw)]

\* the values of clean in the loop over zip(field_names, field_values)
RECURSIVE Cleans(_, _)
Cleans(names, values) ==
  IF names = <<>> \/ values = <<>> THEN <<>>
  ELSE <<Cleaned[Head(values)]>> \o Cleans(Tail(names), Tail(values))

\* the "name: clean" lines of the fields that do not clean to empty, over
\* zip(field_names, field_values)
RECURSIVE Parts(_, _)
Parts(names, values) ==
  IF names = <<>> \/ values = <<>> THEN <<>>
  ELSE LET clean == Cleaned[Head(values)]
       IN (IF clean # "" THEN <<Head(names).name \o ": " \o clean>> ELSE <<>>)
            \o Parts(Tail(names), Tail(values))

\* sep.join(parts)
RECURSIVE Join(_, _)
Join(parts, sep) ==
  IF parts = <<>> THEN ""
  ELSE IF Len(parts) = 1 THEN parts[1]
  ELSE parts[1] \o sep \o Join(Tail(parts), sep)

\* the header with the two sides taken for each other
HeaderSwapped(answer_shown) ==
  "[Card - " \o (IF answer_shown THEN "question side" ELSE "answer shown") \o "]"

\* the en dash U+2013 of the source is written as a hyphen
Header(answer_shown) ==
  "[Card - " \o (IF answer_shown THEN "answer shown" ELSE "question side") \o "]"

ContextReturned(text) == [stage |-> "returned", exc |-> "", text |-> text, clean |-> <<>>]
ContextRaised(cls) == [stage |-> "raised", exc |-> cls, text |-> "", clean |-> <<>>]

\* the header put before the lines also when there is no line
AssembleHeaderAlways(parts, answer_shown) ==
  Truncate(Header(answer_shown) \o "\n" \o Join(parts, "\n"), MAX_TOTAL_CHARS, "\n...")

\* the context returned without the cap on its length
AssembleUncapped(parts, answer_shown) ==
  IF parts = <<>> THEN ""
  ELSE Header(answer_shown) \o "\n" \o Join(parts, "\n")

\* extract_context from "if not parts" on
Assemble(parts, answer_shown) ==
  IF parts = <<>> THEN ""
  ELSE Truncate(Header(answer_shown) \o "\n" \o Join(parts, "\n"), MAX_TOTAL_CHARS, "\n...")

\* extract_context: the try block ends at model = note.model(); what
\* follows it is not guarded
extract_context(card, answer_shown) ==
  IF ~card.card THEN ContextReturned("")
  ELSE IF card.note \in {"raises", "None"} \/ card.model = "raises" THEN ContextReturned("")
  ELSE IF card.model = "None" THEN ContextRaised("AttributeError")
  ELSE IF card.flds = "None" THEN ContextRaised("TypeError")
  ELSE LET flds == IF card.flds = "absent" THEN <<>> ELSE card.names
       IN IF \E i \in 1..Len(flds) : ~flds[i].named THEN ContextRaised("KeyError")
          ELSE [ContextReturned(Assemble(Parts(flds, card.fields), answer_shown))
                  EXCEPT !.clean = Cleans(flds, card.fields)]

\* one call of extract_context, by the question hook (answer_shown false)
\* or the answer hook (true)
CallExtractContext ==
  /\ extraction.stage = "idle"
  /\ \E card \in Cards, answer_shown \in BOOLEAN :
       LET r == extract_context(card, answer_shown)
       IN extraction' = [stage |-> r.stage, card |-> card, answer_shown |-> answer_shown,
                         exc |-> r.exc, text |-> r.text, clean |-> r.clean]
  /\ UNCHANGED NotContext

NextContext == CallExtractContext

SpecContext == Init /\ [][NextContext]_vars

(***************************************************************************)
(* Part 5: config_dialog, the settings dialog and its background probes.   *)
(* Each click starts a _BgWorker thread; the dialog keeps the last one in  *)
(* _bg.  The threads run beside the GUI thread, which runs the slots.      *)
(***************************************************************************)
GeminiKeys == {"", "g-key"}

\* the parameters of the probe functions, and the keywords the dialog's
\* closures _fetch and _test pass to them
FetchModelsParams == {"api_key", "provider", "ollama_url"}
TestConnectionParams == {"api_key", "provider", "ollama_url", "model"}
FetchKeywords == {"api_key", "provider", "ollama_url", "gemini_api_key"}
TestKeywords == {"api_key", "provider", "ollama_url", "model", "gemini_api_key"}

\* _BgWorker.__init__, with the done signal connected to the closure _on_done
BgWorker(fn) ==
  [fn |-> fn, cancelled |-> FALSE, connected |-> TRUE, stage |-> "running",
   handled |-> FALSE, handled_closed |-> FALSE]

\* the call self._fn() of _BgWorker.run binds its keywords, or raises TypeError
FnBinds(fn) ==
  IF fn = "fetch_models" THEN CallBinds(FetchKeywords, FetchModelsParams)
  ELSE CallBinds(TestKeywords, TestConnectionParams)

\* ConfigDialog._refresh_models
refresh_models ==
  /\ dialog_open
  /\ refresh_enabled
  /\ \E p \in Providers, k \in ApiKeys, g \in GeminiKeys :
       IF (p = "openrouter" /\ k = "") \/ (p = "gemini" /\ g = "")
       THEN UNCHANGED dvars
       ELSE /\ refresh_enabled' = FALSE
            /\ workers' = Append(workers, BgWorker("fetch_models"))
            /\ bg' = <<Len(workers) + 1>>
            /\ UNCHANGED <<dialog_open, test_enabled>>
  /\ UNCHANGED NotDialog

\* ConfigDialog._test_connection
test_connection ==
  /\ dialog_open
  /\ test_enabled
  /\ test_enabled' = FALSE
  /\ workers' = Append(workers, BgWorker("test_connection"))
  /\ bg' = <<Len(workers) + 1>>
  /\ UNCHANGED <<dialog_open, refresh_enabled>>
  /\ UNCHANGED NotDialog

\* _BgWorker.run of worker i, with the closure _on_done that the done signal
\* invokes while it is connected
BgRun(i) ==
  /\ workers[i].stage = "running"
  /\ IF ~FnBinds(workers[i].fn)
     THEN /\ workers' = [workers EXCEPT ![i].stage = "TypeError"]
          /\ UNCHANGED <<dialog_open, bg, refresh_enabled, test_enabled>>
     ELSE IF workers[i].cancelled
     THEN /\ workers' = [workers EXCEPT ![i].stage = "discarded"]
          /\ UNCHANGED <<dialog_open, bg, refresh_enabled, test_enabled>>
     ELSE IF ~workers[i].connected
     THEN /\ workers' = [workers EXCEPT ![i].stage = "emitted"]
          /\ UNCHANGED <<dialog_open, bg, refresh_enabled, test_enabled>>
     ELSE /\ workers' = [workers EXCEPT ![i].stage = "emitted",
                                        ![i].handled = TRUE,
                                        ![i].handled_closed = ~dialog_open]
          /\ refresh_enabled' =
               IF workers[i].fn = "fetch_models" THEN TRUE ELSE refresh_enabled
          /\ test_enabled' =
               IF workers[i].fn = "test_connection" THEN TRUE ELSE test_enabled
          /\ bg' = <<>>
          /\ UNCHANGED dialog_open
  /\ UNCHANGED NotDialog

\* ConfigDialog.done
done ==
  /\ dialog_open
  /\ IF bg # <<>>
     THEN /\ workers' = [workers EXCEPT ![bg[1]].cancelled = TRUE,
                                        ![bg[1]].connected = FALSE]
          /\ bg' = <<>>
     ELSE UNCHANGED <<workers, bg>>
  /\ dialog_open' = FALSE
  /\ UNCHANGED <<refresh_enabled, test_enabled>>
  /\ UNCHANGED NotDialog

NextDialog ==
  \/ refresh_models
  \/ test_connection
  \/ \E i \in 1..Len(workers) : BgRun(i)
  \/ done

SpecDialog == Init /\ [][NextDialog]_vars

\* the dialog with its threads scheduled: a started _BgWorker thread runs
SpecDialogFair == SpecDialog /\ WF_vars(\E i \in 1..Len(workers) : BgRun(i))

\* no completion handler of the dialog is ever invoked in this build
NoHandlerInvoked == \A i \in 1..Len(workers) : ~workers[i].handled

(***************************************************************************)
(* The streaming client's contract, stated on the emitted events           *)
(***************************************************************************)
Last(es) == es[Len(es)]
IsTerminal(ev) == ev.type \in {"Completed", "Failed"}
TerminalPositions == {i \in 1..Len(events) : IsTerminal(events[i])}
FailedPositions == {i \in 1..Len(events) : events[i].type = "Failed"}
CompletedPositions == {i \in 1..Len(events) : events[i].type = "Completed"}
RunOver == pc \in {"done", "raised"}

RECURSIVE ChunkTexts(_)
ChunkTexts(es) ==
  IF es = <<>> THEN <<>>
  ELSE (IF Head(es).type = "Chunk" THEN <<Head(es).text>> ELSE <<>>) \o ChunkTexts(Tail(es))

RECURSIVE Concat(_)
Concat(texts) == IF texts = <<>> THEN "" ELSE Head(texts) \o Concat(Tail(texts))

StartsWith(s, prefix) == Len(s) >= Len(prefix) /\ SubSeq(s, 1, Len(prefix)) = prefix

\* The text at choices[0].delta.content of a JSON document, "" when the
\* document has no text there
TextAtPath(j) ==
  IF j.t = "obj" /\ HasKey(j, "choices") /\ Lookup(j, "choices").t = "list"
     /\ Len(Lookup(j, "choices").items) > 0
    THEN LET first == Lookup(j, "choices").items[1]
         IN IF first.t = "obj" /\ HasKey(first, "delta") /\ Lookup(first, "delta").t = "obj"
               /\ HasKey(Lookup(first, "delta"), "content")
               /\ Lookup(Lookup(first, "delta"), "content").t = "str"
              THEN Lookup(Lookup(first, "delta"), "content").s
              ELSE ""
    ELSE ""

IsDataLine(line) == line.utf8 /\ line.marker = Marker
IsSentinel(line) == IsDataLine(line) /\ line.body = DoneBody
LineDelta(line) ==
  IF IsDataLine(line) /\ Bodies[line.body].kind = "json"
    THEN TextAtPath(Bodies[line.body].j) ELSE ""

\* the non-empty deltas of the lines received before the sentinel, in order
RECURSIVE DeltasUntilSentinel(_)
DeltasUntilSentinel(lines) ==
  IF lines = <<>> \/ IsSentinel(Head(lines)) THEN <<>>
  ELSE (IF LineDelta(Head(lines)) # "" THEN <<LineDelta(Head(lines))>> ELSE <<>>)
         \o DeltasUntilSentinel(Tail(lines))

\* C1: a run that is not cancelled emits exactly one terminal event
\* (Completed or Failed), as its last event, after the Chunk events, which
\* come in the order their lines were received; lines after the sentinel
\* produce nothing.
C1_ExactlyOneTerminalEvent ==
  ~cancelled =>
    /\ \A i \in TerminalPositions : i = Len(events)
    /\ RunOver => Cardinality(TerminalPositions) = 1
    /\ ChunkTexts(events) = DeltasUntilSentinel(received)

\* C2: a read-loop iteration that finds the cancellation flag set emits
\* no event at all.
C2_NothingAfterCancelObserved ==
  [][(pc = "read" /\ cancelled /\ received' # received) => events' = events]_vars

\* C3: a Completed event carries the concatenation of the texts of the
\* Chunk events emitted before it (the empty text when there is none), it
\* is the only Completed, and in a run that was not cancelled the Chunk
\* events are exactly the non-empty deltas of the received lines, one each.
C3_CompletedIsConcatenation ==
  (events # <<>> /\ Last(events).type = "Completed") =>
    /\ Last(events).text = Concat(ChunkTexts(events))
    /\ (ChunkTexts(events) = <<>> => Last(events).text = "")
    /\ Cardinality(CompletedPositions) = 1
    /\ ~cancelled => ChunkTexts(events) = DeltasUntilSentinel(received)

C3_Witness ==
  /\ ~cancelled
  /\ events = <<Chunk("Hi"), Chunk(" there"), Completed("Hi there")>>
  /\ IsSentinel(Last(received))

\* C4: with the credential of a cloud provider (openrouter, gemini)
\* missing, the run is one Failed event and the request is never opened.
C4_MissingCredentialFailsOffline ==
  (provider \in {"openrouter", "gemini"} /\ api_key = "" /\ pc # "start") =>
    /\ pc = "done"
    /\ ~opened
    /\ Len(events) = 1 /\ events[1].type = "Failed"

\* a data line whose payload is no JSON, or JSON without a value at
\* choices[0].delta.content; or a line without the marker
HasContentPath(j) ==
  /\ j.t = "obj" /\ HasKey(j, "choices") /\ Lookup(j, "choices").t = "list"
  /\ Len(Lookup(j, "choices").items) > 0
  /\ Lookup(j, "choices").items[1].t = "obj"
  /\ HasKey(Lookup(j, "choices").items[1], "delta")
  /\ Lookup(Lookup(j, "choices").items[1], "delta").t = "obj"
  /\ HasKey(Lookup(Lookup(j, "choices").items[1], "delta"), "content")
Malformed(line) ==
  /\ line.utf8
  /\ \/ line.marker # Marker
     \/ /\ line.body # DoneBody
        /\ Bodies[line.body].kind = "json" => ~HasContentPath(Bodies[line.body].j)

\* C5: a malformed line is skipped: no event, the buffer unchanged, and
\* the loop goes on to the next line.
C5_MalformedLineSkipped ==
  [][(pc = "read" /\ ~cancelled /\ received' # received /\ Malformed(Last(received')))
       => (events' = events /\ full_response' = full_response /\ pc' = "read")]_vars

\* C6: no exception leaves run(); a failure is exactly one Failed event,
\* the last event, with no Completed beside it.
C6_NoExceptionEscapes ==
  /\ pc # "raised"
  /\ FailedPositions # {} =>
       /\ FailedPositions = {Len(events)}
       /\ CompletedPositions = {}

IsTimeout(e) == e = Exc("URLError", "timeout") \/ e = Exc("timeout", "")

MessageField(j) ==
  IF j.t = "obj" /\ HasKey(j, "message") /\ Lookup(j, "message").t = "str"
    THEN Lookup(j, "message").s ELSE ""

\* the message of an error body: that of its error object, else its own
ProviderMessage(body) ==
  IF ~body.readable \/ body.json[1] # "ok" \/ body.json[2].t # "obj" THEN ""
  ELSE LET data == body.json[2]
           inner == IF HasKey(data, "error") THEN MessageField(Lookup(data, "error")) ELSE ""
       IN IF inner # "" THEN inner ELSE MessageField(data)

\* the first n characters of s
Prefix(s, n) == IF Len(s) > n THEN SubSeq(s, 1, n) ELSE s

\* C11: for an HTTP error status the run fails with one message, chosen in
\* this order: the message field of the error body, with the status code in
\* brackets after it, when the body has a non-empty one; else "HTTP <code>: "
\* and the first 200 characters of the stripped body when the body is not
\* blank; else "HTTP <code>".  That holds for every body shape and no
\* exception leaves run().
C11_HttpErrorMessage ==
  caught.cls = "HTTPError" =>
    LET body == ErrBodies[caught.body]
        code == ToString(caught.code)
        text == Last(events).text
    IN /\ pc = "done"
       /\ Last(events).type = "Failed"
       /\ Cardinality(FailedPositions) = 1
       /\ IF ProviderMessage(body) # ""
            THEN text = ProviderMessage(body) \o " (" \o code \o ")"
          ELSE IF body.readable /\ Strip(body.raw) # ""
            THEN /\ text = "HTTP " \o code \o ": " \o Prefix(Strip(body.raw), 200)
                 /\ Len(text) <= Len("HTTP " \o code \o ": ") + 200
          ELSE text = "HTTP " \o code

\* an error body of more than 200 characters, blanks around it, was reported
\* by the first 200 characters of its stripped text
C11_Witness ==
  /\ caught.cls = "HTTPError"
  /\ caught.code = 500
  /\ ErrBodies[caught.body].raw = LongRaw
  /\ Last(events) = Failed("HTTP 500: " \o SubSeq(LongText, 1, 200))

(***************************************************************************)
(* The probe functions                                                     *)
(***************************************************************************)
CloudProviders == {"openrouter", "gemini"}
TestCall == probe.fn = "test_connection"
ListCall == probe.fn = "fetch_models"

\* C12: test_connection for a cloud provider with an empty credential
\* returns (False, "API key is empty") and issues no request, with a model
\* id and without one.
C12_EmptyCredentialNoRequest ==
  (TestCall /\ probe.provider \in CloudProviders /\ probe.api_key = "") =>
    /\ probe.stage = "returned"
    /\ ~probe.ok
    /\ probe.message = "API key is empty"
    /\ ~probe.opened
    /\ probe.request = NoRequest

C12_Witness ==
  /\ TestCall
  /\ probe.provider = "gemini"
  /\ probe.api_key = ""
  /\ probe.model # ""
  /\ probe.stage = "returned"
  /\ probe.message = "API key is empty"

\* C13: test_connection never raises: a call that has ended has returned
\* a pair; after an HTTP error status, a connection failure, a timeout, a
\* response that cannot be parsed or any other exception the pair is
\* (False, message); and (True, message) is returned only after a response
\* was received and parsed.
C13_TestConnectionNeverRaises ==
  TestCall =>
    /\ probe.stage # "raised"
    /\ (probe.stage = "returned" /\ probe.exc # NoExc) => (~probe.ok /\ probe.message # "")
    /\ (probe.stage = "returned" /\ probe.ok) =>
         /\ probe.exc = NoExc
         /\ probe.opened
         /\ probe.resp # 0
         /\ Responses[probe.resp].utf8
         /\ Responses[probe.resp].json[1] = "ok"
         /\ probe.parsed

\* the URL without a scheme was refused inside the try block
C13_Witness ==
  /\ TestCall
  /\ probe.stage = "returned"
  /\ probe.exc = Exc("ValueError", "")
  /\ ~probe.ok
  /\ probe.message = "ValueError"

\* the identifiers are str in increasing order
IsSortedIds(ids) ==
  \A i \in 1..Len(ids) - 1 :
    (ids[i].t = "str" /\ ids[i + 1].t = "str") => ~StrLess(ids[i + 1].s, ids[i].s)

\* C14: fetch_models never raises; after any failure (network, HTTP
\* status, response that cannot be parsed or has another shape, missing
\* cloud credential) it returns the empty list, and the identifiers it
\* returns are in sorted order.
C14_ListModelsNeverRaises ==
  ListCall =>
    /\ probe.stage # "raised"
    /\ (probe.stage = "returned" /\ (probe.exc # NoExc \/ ~probe.parsed)) => probe.models = <<>>
    /\ probe.stage = "returned" => IsSortedIds(probe.models)

\* C18: a request to ollama carries no Authorization header and no key; a
\* request opened to a cloud provider carries "Bearer <key>" with that
\* provider's non-empty key.
C18_AuthorizationHeader ==
  /\ (opened /\ provider = "ollama") => (~request.auth /\ request.bearer = "")
  /\ (opened /\ provider \in CloudProviders) =>
       (request.auth /\ api_key # "" /\ request.bearer = "Bearer " \o api_key)
  /\ (probe.opened /\ probe.provider = "ollama") =>
       (~probe.request.auth /\ probe.request.bearer = "")
  /\ (probe.opened /\ probe.provider \in CloudProviders) =>
       /\ probe.request.auth
       /\ probe.api_key # ""
       /\ probe.request.bearer = "Bearer " \o probe.api_key

(***************************************************************************)
(* The chat panel                                                          *)
(***************************************************************************)
\* the step of _on_send that builds a request: the panel is not streaming
\* and the input is not blank
SendsRequest == on_send /\ ~streaming /\ Strip(input) # ""

CardMessage(context) == Message("system", "Current card:\n" \o context)

\* C16: the message list built for a stream request is the system prompt
\* when it is not empty, then a system message with the card context when
\* and only when the context is not empty, then the whole history in its
\* order, which ends with the user message just submitted.
C16_MessageListOrder ==
  [][SendsRequest =>
       LET sent == request_messages'
           np == IF system_prompt # "" THEN 1 ELSE 0
           nc == IF card_context # "" THEN 1 ELSE 0
       IN /\ messages' = Append(messages, Message("user", Strip(input)))
          /\ Len(sent) = np + nc + Len(messages')
          /\ system_prompt # "" => sent[1] = Message("system", system_prompt)
          /\ card_context # "" => sent[np + 1] = CardMessage(card_context)
          /\ card_context = "" =>
               \A i \in 1..Len(sent) : ~StartsWith(sent[i].content, "Current card:")
          /\ \A i \in 1..Len(messages') : sent[np + nc + i] = messages'[i]
          /\ Last(sent) = Message("user", Strip(input))]_vars

C16_Witness ==
  request_messages =
    <<Message("system", "Be brief."), CardMessage("[Card] Front: x"), Message("user", "why?")>>

\* C17: on_answer_shown changes the stored card context and nothing else:
\* the history, the streaming flag and the worker stay as they are, and a
\* stream in progress goes on.
C17_AnswerShownKeepsChat ==
  [][on_answer_shown =>
       /\ messages' = messages
       /\ streaming' = streaming
       /\ worker' = worker
       /\ input' = input
       /\ request_messages' = request_messages]_vars

\* the answer side was shown after a send: the panel is streaming with its
\* history, and holds another context than the one the request was built with
C17_Witness ==
  /\ streaming
  /\ messages = <<Message("user", "why?")>>
  /\ request_messages = <<CardMessage("[Card] Front: x"), Message("user", "why?")>>
  /\ card_context = "[Card] Front: x\nBack: y"

(***************************************************************************)
(* The context extractor                                                   *)
(***************************************************************************)
Extracted == extraction.stage # "idle"

\* the inputs C19 names: no card, a note or a note type that cannot be
\* obtained, a note type that is absent (None), a note type without field
\* definitions
MissingData(card) ==
  \/ ~card.card
  \/ card.note \in {"raises", "None"}
  \/ card.model \in {"raises", "None"}
  \/ card.flds = "absent"

\* C19: extract_context never raises, and for a missing card, a card whose
\* note or note type cannot be obtained, and a note type that is absent or
\* has no field definitions it returns the empty text.
C19_MalformedInputGivesEmpty ==
  Extracted =>
    /\ extraction.stage = "returned"
    /\ MissingData(extraction.card) => extraction.text = ""

\* the note type has its named fields, and every value that zip pairs with
\* a name cleans to empty
WellFormed(card) ==
  /\ card.card /\ card.note = "note" /\ card.model = "dict" /\ card.flds = "list"
  /\ \A i \in 1..Len(card.names) : card.names[i].named
AllClean(card) ==
  \A i \in 1..Len(card.fields) : i <= Len(card.names) => Cleaned[card.fields[i]] = ""

\* C20: when every field cleans to empty, extract_context returns the
\* empty text, without a header, for answer_shown false and true.
C20_AllFieldsEmptyGivesEmpty ==
  (Extracted /\ WellFormed(extraction.card) /\ AllClean(extraction.card)) =>
    /\ extraction.stage = "returned"
    /\ extraction.text = ""

\* two fields that hold media and markup alone, on the answer side
C20_Witness ==
  /\ extraction.stage = "returned"
  /\ extraction.answer_shown
  /\ extraction.card.names = FrontBack
  /\ extraction.card.fields = <<"<img src=\"a.png\">", "<div><br></div>">>
  /\ extraction.text = ""

\* a field that zip paired with a name cleaned to text
AnyFieldText == \E i \in 1..Len(extraction.clean) : extraction.clean[i] # ""
EndsWith(s, p) == Len(s) >= Len(p) /\ SubSeq(s, Len(s) - Len(p) + 1, Len(s)) = p

\* C21: whenever at least one field cleans to text, the context begins
\* with the header of the side, "question side" when answer_shown is false
\* and "answer shown" when it is true, also when the context was cut at
\* the total cap.
C21_HeaderMatchesSide ==
  (extraction.stage = "returned" /\ AnyFieldText) =>
    StartsWith(extraction.text,
               IF extraction.answer_shown THEN "[Card - answer shown]\n"
               ELSE "[Card - question side]\n")

\* three long fields on the answer side: the context was cut at the cap
C21_Witness ==
  /\ extraction.stage = "returned"
  /\ extraction.answer_shown
  /\ extraction.card.fields = <<OverCap, OverCap, OverCap>>
  /\ Len(extraction.text) > MAX_TOTAL_CHARS
  /\ StartsWith(extraction.text, "[Card - answer shown]\nFront: 0123")

\* the markup patterns of clean_field leave the value as it is, and the
\* value once its whitespace is normalised and trimmed
MarkupSteps == SubSeq(CleanSteps, 1, Len(CleanSteps) - 2)
NoMarkup == [raw \in AllRaw |-> Substitute(MarkupSteps, raw) = raw]
Normalised == [raw \in AllRaw |-> Strip(Substitute(CleanSteps, raw))]

\* C22, as stated: for an input of more than 2000 characters with no
\* markup, clean_field gives exactly 2001 + len("...") characters, ending
\* with "...".
C22_Stated ==
  extraction.stage = "returned" =>
    \A i \in 1..Len(extraction.clean) :
      LET raw == extraction.card.fields[i]
      IN (Len(raw) > 2000 /\ NoMarkup[raw]) =>
           /\ Len(extraction.clean[i]) = 2001 + Len("...")
           /\ EndsWith(extraction.clean[i], "...")

\* C22, amended: for an input with no markup whose text, once whitespace
\* is normalised and trimmed, has more than 2000 characters, clean_field
\* gives exactly 2000 + len("...") characters, ending with "...".
C22_TruncatedLength ==
  extraction.stage = "returned" =>
    \A i \in 1..Len(extraction.clean) :
      LET raw == extraction.card.fields[i]
      IN (NoMarkup[raw] /\ Len(Normalised[raw]) > 2000) =>
           /\ Len(extraction.clean[i]) = 2000 + Len("...")
           /\ EndsWith(extraction.clean[i], "...")

\* a plain value of 2001 characters was cleaned to 2000 characters and "..."
C22_Witness ==
  /\ extraction.stage = "returned"
  /\ extraction.card.fields = <<OverCap>>
  /\ extraction.clean = <<Letters(2000) \o "...">>

\* C23: a context of more than 6000 characters, header and field lines,
\* is returned as its first 6000 characters, a newline and "..."; a
\* shorter one is returned as it is; the result never has more than 6004
\* characters.
C23_TotalCap ==
  extraction.stage = "returned" =>
    /\ Len(extraction.text) <= 6004
    /\ AnyFieldText =>
         LET lines == Parts(extraction.card.names, extraction.card.fields)
             whole == (IF extraction.answer_shown THEN "[Card - answer shown]"
                       ELSE "[Card - question side]") \o "\n" \o Join(lines, "\n")
         IN extraction.text =
              IF Len(whole) > 6000 THEN SubSeq(whole, 1, 6000) \o "\n..." ELSE whole

\* three long fields on the question side: 6004 characters came back
C23_Witness ==
  /\ extraction.stage = "returned"
  /\ ~extraction.answer_shown
  /\ extraction.card.fields = <<OverCap, OverCap, OverCap>>
  /\ Len(extraction.text) = 6004
  /\ EndsWith(extraction.text, "\n...")

\* the note is one cloze deletion with the text x
OneCloze(x) ==
  /\ extraction.stage = "returned"
  /\ extraction.card.fields = <<Cloze(x)>>

PlainText(x) ==
  /\ \A i \in 1..Len(x) : Ch(x, i) \notin {"<", "&", "[", "\\", "\n", "\t"}
  /\ FirstLit(x, 1, "::") = 0
  /\ FirstLit(x, 1, "}}") = 0
  /\ FirstLit(x, 1, "  ") = 0
  /\ Len(Strip(x)) <= MAX_FIELD_CHARS

C25_ResetLeavesPanelIdle ==
  [][/\ (on_new_card \/ cleanup) =>
          /\ ~streaming'
          /\ worker' = None
          /\ messages' = <<>>
     /\ on_new_card => card_context' \in Contexts
     /\ cleanup => card_context' = ""]_vars

\* C26: a send while the panel is streaming only stops the stream: the
\* panel is idle and without worker afterwards, no user message is added
\* to the history, the input text is kept and no request is built.
C26_SendWhileStreamingOnlyStops ==
  [][(streaming /\ on_send) =>
       /\ ~streaming'
       /\ worker' = None
       /\ messages' = messages
       /\ input' = input
       /\ request_messages' = request_messages]_vars

\* C27: whenever the panel is streaming it eventually is not, by the
\* stream's end, its failure or a stop.
C27_StreamingEnds == streaming ~> ~streaming

\* C28: whenever control is back in the event loop, the panel is
\* streaming if and only if it holds a stream worker.
C28_StreamingIffWorker == streaming <=> worker # None

(***************************************************************************)
(* The settings dialog and its probes                                      *)
(***************************************************************************)
\* C30: once the dialog is closed, every probe it started that is still
\* running has its cancel flag set and its done signal disconnected.
C30_ClosedDialogDetachedProbes ==
  ~dialog_open =>
    \A i \in 1..Len(workers) :
      workers[i].stage = "running" => (workers[i].cancelled /\ ~workers[i].connected)

\* C31: while the dialog stays open, a probe started by Refresh or Test
\* Connection eventually invokes its completion handler, so the button it
\* disabled is eventually enabled again, also when the probed operation
\* fails.
C31_ButtonsEnabledAgain ==
  /\ (dialog_open /\ ~refresh_enabled) ~> (refresh_enabled \/ ~dialog_open)
  /\ (dialog_open /\ ~test_enabled) ~> (test_enabled \/ ~dialog_open)

====
